---- MODULE Spec2Model ----
(***************************************************************************)
(* Model of script/twitter_extractor.py: the two-endpoint fetch with       *)
(* fallback (TwitterExtractor.fetch_and_extract), offline re-extraction    *)
(* (extract_from_file), the two shape-specific locators                    *)
(* (extract_from_tweet_detail, extract_from_tweet_result) and the          *)
(* object-to-record mapping (_extract_tweet_data).                         *)
(*                                                                         *)
(* JSON documents are tagged values; the Python operations the code        *)
(* applies to them (dict.get, subscription, iteration, `in`, truthiness)   *)
(* are operators that return the value Raise where Python raises.          *)
(***************************************************************************)
EXTENDS Integers, Sequences, FiniteSets, TLC

VARIABLES
    pc,              \* position of the run: fetch_and_extract, then extract_from_file
    save_raw,        \* parameter save_raw of fetch_and_extract
    save_extracted,  \* parameter save_extracted of fetch_and_extract
    api_data,        \* local api_data of fetch_and_extract
    extracted_data,  \* local extracted_data of fetch_and_extract
    ret,             \* what fetch_and_extract returned (Raise if it raised)
    detail_calls,    \* number of calls of fetch_tweet_detail
    result_calls,    \* number of calls of fetch_tweet_result
    detail_response, \* the HTTP exchange of fetch_tweet_detail (its local response)
    result_response, \* the HTTP exchange of fetch_tweet_result (its local response)
    files,           \* output directory: file name -> saved JSON document
    now,             \* the clock read by datetime.now()
    off_ret,         \* what extract_from_file returned
    input_file,      \* argument input_file of extract_from_file
    response_data,   \* the document handed to extraction: local response_data of
                     \* extract_from_file, argument of the call under test (SpecExtract)
    shape,           \* which extraction function is under test (SpecExtract)
    result           \* what the extraction call under test returned (SpecExtract)

vars == <<pc, save_raw, save_extracted, api_data, extracted_data, ret,
          detail_calls, result_calls, detail_response, result_response,
          files, now, off_ret, input_file, response_data, shape, result>>

-----------------------------------------------------------------------------
(* Bounds of the model.                                                    *)

MaxEntries == 3      \* longest entry list of a TimelineAddEntries instruction
MaxMedia == 3        \* longest extended_entities.media list
MaxTime == 1         \* clock values are 0..MaxTime
MaxFetchedEntries == 2   \* longest entry list in a body the endpoint answers with

-----------------------------------------------------------------------------
(* JSON values (what json.load / response.json() return) and Python's None.*)
(* A string is its sequence of characters.                                 *)

Null == [t |-> "null"]
Str(s) == [t |-> "str", s |-> s]
Num(n) == [t |-> "num", n |-> n]
Bool(b) == [t |-> "bool", b |-> b]
List(l) == [t |-> "list", l |-> l]
Obj(f) == [t |-> "obj", o |-> f]

EmptyStr == Str(<<>>)
EmptyObj == Obj(<<>>)
EmptyList == List(<<>>)

\* An exception propagating out of an expression.
Raise == [t |-> "raise"]

\* The characters of a dict key (keys are written as TLA+ strings).
Chars(k) == IF k = "tweet-" THEN <<"t", "w", "e", "e", "t", "-">> ELSE <<k>>

\* x.get(k, d): only a dict has .get (AttributeError otherwise).
Get(x, k, d) ==
    IF x.t = "obj" THEN (IF k \in DOMAIN x.o THEN x.o[k] ELSE d) ELSE Raise

\* x[k] with a string key k: KeyError on a dict without k, TypeError on
\* None, a list, a string or a number.
Subscript(x, k) ==
    IF x.t = "obj" /\ k \in DOMAIN x.o THEN x.o[k] ELSE Raise

\* bool(x), as in `if x:` and `if not x:`.
Truthy(x) ==
    CASE x.t = "null" -> FALSE
      [] x.t = "str"  -> x.s # <<>>
      [] x.t = "num"  -> x.n # 0
      [] x.t = "bool" -> x.b
      [] x.t = "list" -> x.l # <<>>
      [] x.t = "obj"  -> DOMAIN x.o # {}

\* The sequence `for e in x` walks, wrapped in List: the items of a list, the
\* keys of a dict, the characters of a string; TypeError on None and numbers.
Iterate(x) ==
    CASE x.t = "list" -> x
      [] x.t = "obj"  ->
           LET keys == DOMAIN x.o
               order == CHOOSE f \in [1..Cardinality(keys) -> keys] :
                            \A i, j \in 1..Cardinality(keys) : i # j => f[i] # f[j]
           IN List([i \in 1..Cardinality(keys) |-> Str(Chars(order[i]))])
      [] x.t = "str"  -> List([i \in 1..Len(x.s) |-> Str(<<x.s[i]>>)])
      [] OTHER        -> Raise

\* sub occurs in s as a contiguous run of characters.
Contains(sub, s) ==
    \E i \in 0..(Len(s) - Len(sub)) : SubSeq(s, i + 1, i + Len(sub)) = sub

\* `needle in x` for a string needle: substring of a string, item of a list,
\* key of a dict.
In(needle, x) ==
    CASE x.t = "str"  -> Contains(needle, x.s)
      [] x.t = "list" -> \E i \in 1..Len(x.l) : x.l[i] = Str(needle)
      [] x.t = "obj"  -> \E k \in DOMAIN x.o : Chars(k) = needle
      [] OTHER        -> FALSE

\* `needle in x` raises TypeError: x is None, a number or a boolean (or the
\* expression that computes x raised).
InRaises(x) == x.t \notin {"str", "list", "obj"}

\* x == 'literal' for a JSON value x.
EqStr(x, lit) == x = Str(lit)

\* try: v  except Exception: return None
Caught(v) == IF v = Raise THEN Null ELSE v

-----------------------------------------------------------------------------
(* String literals of the source.                                          *)

TweetStr == <<"T", "w", "e", "e", "t">>
PostMarker == <<"t", "w", "e", "e", "t", "-">>
TimelineAddEntries ==
    <<"T", "i", "m", "e", "l", "i", "n", "e", "A", "d", "d",
      "E", "n", "t", "r", "i", "e", "s">>

Digits == <<"0", "1", "2", "3", "4", "5", "6", "7", "8", "9">>

\* datetime.isoformat(): a string that determines the time it was made from.
IsoFormat(n) == Str(<<"T", Digits[n + 1]>>)

-----------------------------------------------------------------------------
(* _extract_tweet_data: the object-to-record mapping.                      *)

\* The media loop with insert(0, ...) for append(...): the items come out
\* in reverse order.
RECURSIVE media_loop_reversed(_)
media_loop_reversed(items) ==
    IF items = <<>> THEN EmptyList
    ELSE LET media == Head(items)
             type == Get(media, "type", Null)
             url == Get(media, "media_url_https", Null)
             display_url == Get(media, "display_url", Null)
             rest == media_loop_reversed(Tail(items))
         IN IF Raise \in {type, url, display_url, rest} THEN Raise
            ELSE List(rest.l \o <<Obj([type |-> type, url |-> url,
                                      display_url |-> display_url])>>)

\* for media in media_list: tweet_info['media'].append({...})
RECURSIVE media_loop(_)
media_loop(items) ==
    IF items = <<>> THEN EmptyList
    ELSE LET media == Head(items)
             type == Get(media, "type", Null)
             url == Get(media, "media_url_https", Null)
             display_url == Get(media, "display_url", Null)
             rest == media_loop(Tail(items))
         IN IF Raise \in {type, url, display_url, rest} THEN Raise
            ELSE List(<<Obj([type |-> type, url |-> url,
                            display_url |-> display_url])>> \o rest.l)

\* x.get(k, ''), x.get(k, 0), x.get(k, False) and x.get(k): the defaults of
\* the string, count, flag and optional fields.
get_str(x, k) == Get(x, k, EmptyStr)

\* x.get(k) where x.get(k, 0) was meant.
get_count_no_default(x, k) == Get(x, k, Null)

get_count(x, k) == Get(x, k, Num(0))
get_flag(x, k) == Get(x, k, Bool(FALSE))
get_opt(x, k) == Get(x, k, Null)

extract_tweet_data(tweet_data, t) ==
    LET legacy == Get(tweet_data, "legacy", EmptyObj)
        core == Get(tweet_data, "core", EmptyObj)
        user_results == Get(core, "user_results", EmptyObj)
        user_result == Get(user_results, "result", EmptyObj)
        user_legacy == Get(user_result, "legacy", EmptyObj)
        media_list == Iterate(Get(Get(legacy, "extended_entities", EmptyObj),
                                  "media", EmptyList))
        tweet_info == [
           tweet_id |-> get_opt(tweet_data, "rest_id"),
           text |-> get_str(legacy, "full_text"),
           created_at |-> get_str(legacy, "created_at"),
           retweet_count |-> get_count(legacy, "retweet_count"),
           favorite_count |-> get_count(legacy, "favorite_count"),
           reply_count |-> get_count(legacy, "reply_count"),
           quote_count |-> get_count(legacy, "quote_count"),
           bookmark_count |-> get_count(legacy, "bookmark_count"),
           views |-> get_opt(Get(tweet_data, "views", EmptyObj), "count"),
           lang |-> get_str(legacy, "lang"),
           source |-> get_str(legacy, "source"),
           media |-> IF media_list = Raise THEN Raise
                     ELSE media_loop(media_list.l)]
        user_info == [
           user_id |-> get_opt(user_result, "rest_id"),
           screen_name |-> get_str(user_legacy, "screen_name"),
           name |-> get_str(user_legacy, "name"),
           description |-> get_str(user_legacy, "description"),
           location |-> get_str(user_legacy, "location"),
           followers_count |-> get_count(user_legacy, "followers_count"),
           friends_count |-> get_count(user_legacy, "friends_count"),
           statuses_count |-> get_count(user_legacy, "statuses_count"),
           created_at |-> get_str(user_legacy, "created_at"),
           verified |-> get_flag(user_legacy, "verified"),
           is_blue_verified |-> get_flag(user_result, "is_blue_verified"),
           profile_image_url |-> get_str(user_legacy, "profile_image_url_https"),
           profile_banner_url |-> get_str(user_legacy, "profile_banner_url"),
           url |-> get_str(user_legacy, "url")]
    IN IF \/ \E k \in DOMAIN tweet_info : tweet_info[k] = Raise
          \/ \E k \in DOMAIN user_info : user_info[k] = Raise
       THEN Raise
       ELSE Obj([extracted_at |-> IsoFormat(t),
                 tweet |-> Obj(tweet_info),
                 user |-> Obj(user_info)])

-----------------------------------------------------------------------------
(* The shape-specific locators.                                            *)

\* for instruction in instructions: ... entries = instruction.get('entries', []); break
\* Returns entries (None when no instruction matched), or Raise.
RECURSIVE find_entries(_)
find_entries(instructions) ==
    IF instructions = <<>> THEN Null
    ELSE LET instruction == Head(instructions)
             type == Get(instruction, "type", Null)
         IN IF type = Raise THEN Raise
            ELSE IF EqStr(type, TimelineAddEntries)
                 THEN Get(instruction, "entries", EmptyList)
                 ELSE find_entries(Tail(instructions))

\* find_focal_tweet without the 'tweet-' test: the first entry of post type wins.
RECURSIVE find_focal_tweet_any_id(_)
find_focal_tweet_any_id(entries) ==
    IF entries = <<>> THEN Null
    ELSE LET res == Get(Get(Get(Get(Head(entries), "content", EmptyObj),
                        "itemContent", EmptyObj), "tweet_results", EmptyObj),
                        "result", EmptyObj)
             typename == Get(res, "__typename", Null)
         IN IF typename = Raise THEN Raise
            ELSE IF EqStr(typename, TweetStr) THEN res
            ELSE find_focal_tweet_any_id(Tail(entries))

\* find_focal_tweet that stops at the first entry carrying the marker, of
\* post type or not.
RECURSIVE find_focal_tweet_first_marked(_)
find_focal_tweet_first_marked(entries) ==
    IF entries = <<>> THEN Null
    ELSE LET entryId == Get(Head(entries), "entryId", EmptyStr)
             res == Get(Get(Get(Get(Head(entries), "content", EmptyObj),
                        "itemContent", EmptyObj), "tweet_results", EmptyObj),
                        "result", EmptyObj)
             typename == Get(res, "__typename", Null)
         IN IF InRaises(entryId) THEN Raise
            ELSE IF ~In(PostMarker, entryId)
                 THEN find_focal_tweet_first_marked(Tail(entries))
            ELSE IF typename = Raise THEN Raise
            ELSE IF EqStr(typename, TweetStr) THEN res
            ELSE Null

\* for entry in entries: ... focal_tweet = result; break
\* Returns focal_tweet (None when no entry qualified), or Raise.
RECURSIVE find_focal_tweet(_)
find_focal_tweet(entries) ==
    IF entries = <<>> THEN Null
    ELSE LET entry == Head(entries)
             entryId == Get(entry, "entryId", EmptyStr)
             content == Get(entry, "content", EmptyObj)
             item_content == Get(content, "itemContent", EmptyObj)
             tweet_results == Get(item_content, "tweet_results", EmptyObj)
             res == Get(tweet_results, "result", EmptyObj)
             typename == Get(res, "__typename", Null)
         IN IF InRaises(entryId) THEN Raise
            ELSE IF ~In(PostMarker, entryId) THEN find_focal_tweet(Tail(entries))
            ELSE IF typename = Raise THEN Raise
            ELSE IF EqStr(typename, TweetStr) THEN res
            ELSE find_focal_tweet(Tail(entries))

\* The body of the try block of extract_from_tweet_detail.
tweet_detail_body(doc, t) ==
    LET instructions ==
            Iterate(Subscript(Subscript(Subscript(doc, "data"),
                "threaded_conversation_with_injections_v2"), "instructions"))
        entries == IF instructions = Raise THEN Raise
                   ELSE find_entries(instructions.l)
        entry_seq == IF entries = Raise THEN Raise
                     ELSE IF ~Truthy(entries) THEN Null
                     ELSE Iterate(entries)
        focal_tweet == IF entry_seq \in {Raise, Null} THEN entry_seq
                       ELSE find_focal_tweet(entry_seq.l)
    IN IF focal_tweet = Raise THEN Raise
       ELSE IF ~Truthy(focal_tweet) THEN Null
       ELSE extract_tweet_data(focal_tweet, t)

\* extract_from_tweet_detail without its try/except.
extract_from_tweet_detail_uncaught(doc, t) == tweet_detail_body(doc, t)

\* try: ... except Exception as e: return None
extract_from_tweet_detail(doc, t) == Caught(tweet_detail_body(doc, t))

\* extract_from_tweet_result without the __typename test.
extract_from_tweet_result_unchecked(doc, t) ==
    Caught(extract_tweet_data(
        Get(Subscript(Subscript(doc, "data"), "tweetResult"), "result", EmptyObj), t))

extract_from_tweet_result(doc, t) ==
    LET tweet_result == Subscript(Subscript(doc, "data"), "tweetResult")
        typename == Get(Get(tweet_result, "result", EmptyObj), "__typename", Null)
    IN Caught(IF typename = Raise THEN Raise
              ELSE IF EqStr(typename, TweetStr)
                   THEN extract_tweet_data(Subscript(tweet_result, "result"), t)
                   ELSE Null)

-----------------------------------------------------------------------------
(* The documents the model feeds to the code.  The API's responses are not *)
(* controlled by the program: every slot of a document is filled with the  *)
(* well-formed value, left out, or filled with a value of the wrong type.  *)

\* Marks a key that is left out of a generated dict; never part of a document.
Absent == [t |-> "absent"]

\* The dict holding the keys of f whose value is not Absent.
Mk(f) == Obj([k \in {j \in DOMAIN f : f[j] # Absent} |-> f[k]])

Seqs(S, n) == UNION {[1..k -> S] : k \in 0..n}

TombstoneStr == <<"T", "o", "m", "b">>

MediaA == Obj([type |-> Str(<<"p">>), media_url_https |-> Str(<<"u", "a">>),
               display_url |-> Str(<<"d", "a">>), id_str |-> Str(<<"7">>)])
MediaB == Obj([type |-> Str(<<"v">>), media_url_https |-> Str(<<"u", "b">>),
               display_url |-> Str(<<"d", "b">>), sizes |-> EmptyObj])
MediaC == Obj([type |-> Str(<<"g">>), media_url_https |-> Str(<<"u", "c">>)])
MediaItems == {MediaA, MediaB, MediaC}

MediaLists == {List(l) : l \in Seqs(MediaItems, MaxMedia)}

\* Values of the wrong type under extended_entities.media.
MalformedMedia ==
    {Null, Num(3), EmptyStr, Str(<<"x">>), EmptyObj, Obj([a |-> Null]),
     List(<<Null>>), List(<<MediaA, Str(<<"x">>)>>)}

Legacy(media) ==
    Mk([full_text |-> Str(<<"h", "i">>), created_at |-> Str(<<"M", "o", "n">>),
        retweet_count |-> Num(2), favorite_count |-> Num(5),
        reply_count |-> Num(1), quote_count |-> Num(3),
        bookmark_count |-> Num(4), lang |-> Str(<<"e", "n">>),
        source |-> Str(<<"w", "e", "b">>),
        extended_entities |-> IF media = Absent THEN Absent
                              ELSE Obj([media |-> media])])

LegacyValues ==
    {Absent, Null, EmptyList, Str(<<"x">>), EmptyObj,
     Obj([full_text |-> Null]),
     Obj([extended_entities |-> Null]), Obj([extended_entities |-> EmptyObj])}
    \cup {Legacy(m) : m \in MediaLists \cup MalformedMedia \cup {Absent}}

User(verified, blue) ==
    Obj([rest_id |-> Str(<<"9">>), is_blue_verified |-> Bool(blue),
         legacy |-> Obj([screen_name |-> Str(<<"b", "o", "b">>),
                         name |-> Str(<<"B", "o", "b">>),
                         description |-> Str(<<"b", "i", "o">>),
                         location |-> Str(<<"N", "Y">>),
                         followers_count |-> Num(7), friends_count |-> Num(8),
                         statuses_count |-> Num(9),
                         created_at |-> Str(<<"T", "u", "e">>),
                         verified |-> Bool(verified),
                         profile_image_url_https |-> Str(<<"i">>),
                         profile_banner_url |-> Str(<<"b">>),
                         url |-> Str(<<"u">>)])])

Core(user) == Obj([user_results |-> Obj([result |-> user])])

CoreValues ==
    {Absent, Null, Core(User(FALSE, TRUE)), Core(User(TRUE, FALSE)),
     Core(Null), Core(EmptyObj), Core(Obj([legacy |-> EmptyList]))}

ViewsValues == {Absent, Null, EmptyObj, Obj([count |-> Str(<<"4", "2">>)])}

TypenameValues == {Absent, Str(TweetStr), Str(TombstoneStr)}

TweetObject(typename, rest_id, legacy, core, views) ==
    Mk(("__typename" :> typename) @@
       [rest_id |-> rest_id, legacy |-> legacy, core |-> core, views |-> views])

\* Every result object: posts, tombstones and objects without a discriminant.
TweetObjects ==
    {TweetObject(ty, id, l, c, v) :
        ty \in TypenameValues, id \in {Absent, Str(<<"1">>)},
        l \in LegacyValues, c \in CoreValues, v \in ViewsValues}

IsPost(x) == x.t = "obj" /\ Get(x, "__typename", Null) = Str(TweetStr)

PostObjects == {x \in TweetObjects : IsPost(x)}

ResultDoc(tweetResult) == Obj([data |-> Obj([tweetResult |-> tweetResult])])

\* Bodies the TweetResultByRestId endpoint can answer with.
ResultDocs ==
    {ResultDoc(Obj([result |-> x])) : x \in TweetObjects}
    \cup {Null, EmptyObj, EmptyList, Obj([data |-> Null]), Obj([data |-> EmptyObj]),
          Obj([errors |-> List(<<EmptyObj>>)]),
          ResultDoc(Null), ResultDoc(EmptyObj), ResultDoc(EmptyList),
          ResultDoc(Obj([result |-> Null])),
          ResultDoc(Obj([result |-> EmptyList]))}

Entry(entryId, res) ==
    Mk([entryId |-> entryId,
        content |-> IF res = Absent THEN Absent
                    ELSE Obj([itemContent |->
                              Obj([tweet_results |-> Obj([result |-> res])])])])

TweetX == TweetObject(Str(TweetStr), Str(<<"1">>), Legacy(List(<<MediaA, MediaB>>)),
                      Core(User(FALSE, TRUE)), Obj([count |-> Str(<<"4", "2">>)]))
TweetY == TweetObject(Str(TweetStr), Str(<<"2">>), Obj([full_text |-> Str(<<"y">>)]),
                      Core(User(TRUE, FALSE)), Absent)
Tombstone == TweetObject(Str(TombstoneStr), Absent, Absent, Absent, Absent)
\* A post whose legacy is null: the mapping raises on it.
TweetNullLegacy == TweetObject(Str(TweetStr), Str(<<"3">>), Null, Absent, Absent)

EntryX == Entry(Str(<<"t", "w", "e", "e", "t", "-", "1">>), TweetX)
EntryY == Entry(Str(<<"a", "-", "t", "w", "e", "e", "t", "-", "2">>), TweetY)
EntryTombstone == Entry(Str(<<"t", "w", "e", "e", "t", "-", "3">>), Tombstone)
EntryCursor == Entry(Str(<<"c", "u", "r", "s", "o", "r", "-", "1">>), TweetY)
EntryNullContent == Obj([entryId |-> Str(<<"t", "w", "e", "e", "t", "-", "4">>),
                         content |-> Null])
EntryNullLegacy == Entry(Str(<<"t", "w", "e", "e", "t", "-", "6">>), TweetNullLegacy)
EntryNoContent == Entry(Str(<<"t", "w", "e", "e", "t", "-", "7">>), Absent)

EntryNullId == Obj([entryId |-> Null])
EntryNoId == Entry(Absent, TweetY)

EntryValues ==
    {EntryX, EntryY, EntryTombstone, EntryCursor, EntryNullContent,
     EntryNullLegacy, EntryNoContent, EntryNullId, EntryNoId, Null}

AddEntries(entries) == Mk([type |-> Str(TimelineAddEntries), entries |-> entries])
ClearCache == Obj([type |-> Str(<<"C", "l", "e", "a", "r">>)])

DetailDoc(instructions) ==
    Obj([data |-> Obj([threaded_conversation_with_injections_v2 |->
                       Obj([instructions |-> instructions])])])

\* Documents of the TweetDetail shape whose entry list is one of `lists`.
DetailDocsOf(lists) ==
    {DetailDoc(List(<<AddEntries(List(l))>>)) : l \in lists}
    \cup {DetailDoc(List(<<ClearCache, AddEntries(List(l))>>)) : l \in lists}

\* Documents with a value of the wrong type, or nothing, on the way to the entries.
MalformedDetailDocs ==
    {Null, EmptyObj, EmptyList, Obj([data |-> Null]), Obj([data |-> EmptyObj]),
     Obj([errors |-> List(<<EmptyObj>>)]),
     DetailDoc(Null), DetailDoc(EmptyObj), DetailDoc(Obj([a |-> Null])),
     DetailDoc(EmptyList), DetailDoc(List(<<ClearCache>>)),
     DetailDoc(List(<<Null, AddEntries(List(<<EntryX>>))>>)),
     DetailDoc(List(<<AddEntries(Absent)>>)),
     DetailDoc(List(<<AddEntries(Null)>>)),
     DetailDoc(List(<<AddEntries(EmptyObj)>>)),
     DetailDoc(List(<<AddEntries(Obj([a |-> Null]))>>)),
     DetailDoc(List(<<AddEntries(Str(<<"x">>))>>)),
     DetailDoc(List(<<AddEntries(List(<<EntryTombstone>>)),
                      AddEntries(List(<<EntryX>>))>>))}

\* A document carrying both shapes: a tombstone in the conversation and a
\* post under data.tweetResult.
HybridDoc ==
    Obj([data |-> Obj([threaded_conversation_with_injections_v2 |->
                         Obj([instructions |->
                              List(<<AddEntries(List(<<EntryTombstone>>))>>)]),
                       tweetResult |-> Obj([result |-> TweetY])])])

DetailDocs ==
    DetailDocsOf(Seqs(EntryValues, MaxEntries)) \cup MalformedDetailDocs
    \cup {HybridDoc}

-----------------------------------------------------------------------------
(* The Fetcher.  An HTTP exchange ends in a network error, a non-success   *)
(* status, a body that is not JSON, or a JSON body.                        *)

FailedExchanges ==
    {[kind |-> "network_error"], [kind |-> "http_error"], [kind |-> "bad_json"]}

\* No request was made yet.
NoExchange == [kind |-> "none"]

Exchanges(bodies) == FailedExchanges \cup {[kind |-> "ok", body |-> d] : d \in bodies}

\* requests.get(...): raises on a network error.
requests_get(exchange) ==
    IF exchange.kind = "network_error" THEN Raise ELSE exchange

\* response.raise_for_status(): raises on a non-success status.
raise_for_status(response) ==
    IF response = Raise \/ response.kind = "http_error" THEN Raise ELSE response

\* response.json(): raises on a malformed body.
json(response) ==
    IF response = Raise \/ response.kind = "bad_json" THEN Raise ELSE response.body

fetch_tweet_detail(exchange) == Caught(json(raise_for_status(requests_get(exchange))))

\* fetch_tweet_result without its try/except.
fetch_tweet_result_uncaught(exchange) == json(raise_for_status(requests_get(exchange)))

fetch_tweet_result(exchange) == Caught(json(raise_for_status(requests_get(exchange))))

\* Bodies the TweetDetail endpoint answers with in the orchestration runs.
FetchedDetailDocs ==
    DetailDocsOf(Seqs({EntryX, EntryTombstone, EntryNullLegacy}, MaxFetchedEntries))
    \cup {Null, EmptyObj, Obj([errors |-> List(<<EmptyObj>>)]), HybridDoc,
          ResultDoc(Obj([result |-> TweetX]))}

\* Bodies the TweetResultByRestId endpoint answers with in the orchestration runs.
FetchedResultDocs ==
    {ResultDoc(Obj([result |-> x])) : x \in {TweetX, TweetY, Tombstone, TweetNullLegacy}}
    \cup {Null, EmptyObj, ResultDoc(Null),
          DetailDoc(List(<<AddEntries(List(<<EntryY>>))>>))}

-----------------------------------------------------------------------------
(* Persistence: save_response and save_extracted_data write (or overwrite) *)
(* one file of the output directory.                                       *)

save_response(dir, data, filename) ==
    [f \in DOMAIN dir \cup {filename} |-> IF f = filename THEN data ELSE dir[f]]

save_extracted_data(dir, data, filename) ==
    [f \in DOMAIN dir \cup {filename} |-> IF f = filename THEN data ELSE dir[f]]

\* The file names of one post identifier, and the names the caller of
\* extract_from_file may give the output.
DetailFile == "tweet_detail"
ResultFile == "tweet_result"
ExtractedFile == "extracted"
OutputFilenames == {"extracted", "offline"}

-----------------------------------------------------------------------------
(* fetch_and_extract, in three steps: up to the end of the TweetDetail     *)
(* attempt, the TweetResult attempt, and the return.                       *)

Init ==
    /\ pc = "start"
    /\ save_raw \in BOOLEAN /\ save_extracted \in BOOLEAN
    /\ api_data = Null /\ extracted_data = Null /\ ret = Null
    /\ detail_calls = 0 /\ result_calls = 0
    /\ detail_response = NoExchange /\ result_response = NoExchange
    /\ files = <<>> /\ now = 0
    /\ off_ret = Null /\ input_file = "none"
    /\ response_data = Null /\ shape = "none" /\ result = Null

extract_vars == <<response_data, shape, result>>

\* The fallback taken whatever the TweetDetail attempt gave.
tweet_detail_failed_always(extracted) == TRUE

\* if not extracted_data:  (the TweetDetail attempt gave nothing)
tweet_detail_failed(extracted) == ~Truthy(extracted)

\* The fallback parsing the TweetResult response as a TweetDetail response.
extract_fallback_as_detail(data, t) == extract_from_tweet_detail(data, t)

\* extracted_data = self.extract_from_tweet_result(api_data), in the fallback
extract_fallback(data, t) == extract_from_tweet_result(data, t)

\* extract_from_file trying the TweetResult format only.
extract_result_format_only(doc, t) == extract_from_tweet_result(doc, t)

\* extract_from_file: TweetDetail format first, then TweetResult format.
extract_either_format(doc, t) ==
    LET first == extract_from_tweet_detail(doc, t)
    IN IF ~Truthy(first) THEN extract_from_tweet_result(doc, t) ELSE first

\* An exception leaves fetch_and_extract.
Raises ==
    /\ pc' = "raised" /\ ret' = Raise
    /\ UNCHANGED <<api_data, extracted_data, files>>

\* api_data = self.fetch_tweet_detail(tweet_id) ... extract_from_tweet_detail
TryTweetDetail ==
    /\ pc = "start"
    /\ \E exchange \in Exchanges(FetchedDetailDocs), t \in now..MaxTime :
         LET data == fetch_tweet_detail(exchange)
             extracted == IF data = Raise THEN Raise
                          ELSE IF Truthy(data) THEN extract_from_tweet_detail(data, t)
                          ELSE Null
         IN /\ now' = t
            /\ detail_calls' = detail_calls + 1
            /\ detail_response' = exchange
            /\ IF extracted = Raise THEN Raises
               ELSE /\ api_data' = data
                    /\ files' = IF Truthy(data) /\ save_raw
                                THEN save_response(files, data, DetailFile)
                                ELSE files
                    /\ extracted_data' = extracted
                    /\ pc' = "after_detail"
                    /\ UNCHANGED ret
    /\ UNCHANGED <<save_raw, save_extracted, result_calls, result_response,
                   off_ret, input_file, extract_vars>>

\* if not extracted_data: api_data = self.fetch_tweet_result(tweet_id) ...
TryTweetResult ==
    /\ pc = "after_detail"
    /\ tweet_detail_failed(extracted_data)
    /\ \E exchange \in Exchanges(FetchedResultDocs), t \in now..MaxTime :
         LET data == fetch_tweet_result(exchange)
             extracted == IF data = Raise THEN Raise
                          ELSE IF Truthy(data) THEN extract_fallback(data, t)
                          ELSE extracted_data
         IN /\ now' = t
            /\ result_calls' = result_calls + 1
            /\ result_response' = exchange
            /\ IF extracted = Raise THEN Raises
               ELSE /\ api_data' = data
                    /\ files' = IF Truthy(data) /\ save_raw
                                THEN save_response(files, data, ResultFile)
                                ELSE files
                    /\ extracted_data' = extracted
                    /\ pc' = "after_result"
                    /\ UNCHANGED ret
    /\ UNCHANGED <<save_raw, save_extracted, detail_calls, detail_response,
                   off_ret, input_file, extract_vars>>

\* if extracted_data: ... return extracted_data  else: return None
Return ==
    /\ \/ pc = "after_detail" /\ ~tweet_detail_failed(extracted_data)
       \/ pc = "after_result"
    /\ IF Truthy(extracted_data)
       THEN /\ files' = IF save_extracted
                        THEN save_extracted_data(files, extracted_data, ExtractedFile)
                        ELSE files
            /\ ret' = extracted_data
       ELSE /\ files' = files
            /\ ret' = Null
    /\ pc' = "returned"
    /\ UNCHANGED <<save_raw, save_extracted, api_data, extracted_data, detail_calls,
                   result_calls, detail_response, result_response, now, off_ret,
                   input_file, extract_vars>>

\* extract_from_file(input_file, output_filename) on a file of the output
\* directory, after the live run.
ExtractFromFile ==
    /\ pc = "returned"
    /\ \E name \in DOMAIN files, output_filename \in OutputFilenames,
          t \in now..MaxTime :
         LET doc == files[name]
             extracted == extract_either_format(doc, t)
         IN /\ input_file' = name
            /\ response_data' = doc
            /\ now' = t
            /\ IF Truthy(extracted)
               THEN /\ files' = save_extracted_data(files, extracted, output_filename)
                    /\ off_ret' = extracted
               ELSE /\ files' = files
                    /\ off_ret' = Null
    /\ pc' = "offline_done"
    /\ UNCHANGED <<save_raw, save_extracted, api_data, extracted_data, ret,
                   detail_calls, result_calls, detail_response, result_response,
                   shape, result>>

Next == TryTweetDetail \/ TryTweetResult \/ Return \/ ExtractFromFile

Spec == Init /\ [][Next]_vars

-----------------------------------------------------------------------------
(* SpecExtract: one call of an extraction function on one document.        *)

Shapes == {"detail", "result", "tweet"}

InitExtract ==
    /\ pc = "call"
    /\ shape \in Shapes
    /\ response_data \in IF shape = "tweet" THEN PostObjects
                         ELSE DetailDocs \cup ResultDocs
    /\ now \in 0..MaxTime
    /\ result = Null
    /\ save_raw = FALSE /\ save_extracted = FALSE
    /\ api_data = Null /\ extracted_data = Null /\ ret = Null
    /\ detail_calls = 0 /\ result_calls = 0
    /\ detail_response = NoExchange /\ result_response = NoExchange
    /\ files = <<>> /\ off_ret = Null /\ input_file = "none"

orchestration_vars ==
    <<save_raw, save_extracted, api_data, extracted_data, ret, detail_calls,
      result_calls, detail_response, result_response, files, off_ret, input_file>>

\* extract_from_tweet_detail(response_data)
CallExtractDetail ==
    /\ pc = "call" /\ shape = "detail"
    /\ result' = extract_from_tweet_detail(response_data, now)
    /\ pc' = "returned"
    /\ UNCHANGED <<response_data, shape, now, orchestration_vars>>

\* extract_from_tweet_result(response_data)
CallExtractResult ==
    /\ pc = "call" /\ shape = "result"
    /\ result' = extract_from_tweet_result(response_data, now)
    /\ pc' = "returned"
    /\ UNCHANGED <<response_data, shape, now, orchestration_vars>>

\* _extract_tweet_data(response_data) on a post object; it has no handler of
\* its own, so an exception leaves it.
CallExtractTweetData ==
    /\ pc = "call" /\ shape = "tweet"
    /\ result' = extract_tweet_data(response_data, now)
    /\ pc' = "returned"
    /\ UNCHANGED <<response_data, shape, now, orchestration_vars>>

NextExtract == CallExtractDetail \/ CallExtractResult \/ CallExtractTweetData

SpecExtract == InitExtract /\ [][NextExtract]_vars

-----------------------------------------------------------------------------
(* The objects the properties speak about, read on the document itself.    *)

\* The value under the chain of keys, Absent when a key is missing or a
\* value on the way is no dict.
RECURSIVE Path(_, _)
Path(x, keys) ==
    IF keys = <<>> THEN x
    ELSE IF x.t = "obj" /\ Head(keys) \in DOMAIN x.o
         THEN Path(x.o[Head(keys)], Tail(keys))
         ELSE Absent

\* Every value on the chain of keys is a dict, as far as the chain is present.
RECURSIVE WellFormedChain(_, _)
WellFormedChain(x, keys) ==
    /\ x.t = "obj"
    /\ keys # <<>> /\ Head(keys) \in DOMAIN x.o
         => WellFormedChain(x.o[Head(keys)], Tail(keys))

ResultChain == <<"content", "itemContent", "tweet_results", "result">>

\* The entry list the primary path scans: that of the first instruction of
\* type TimelineAddEntries, when the instructions before it are objects.
EntriesOf(doc) ==
    LET ins == Path(doc, <<"data", "threaded_conversation_with_injections_v2",
                           "instructions">>)
        adds == IF ins.t = "list"
                THEN {i \in 1..Len(ins.l) :
                        Path(ins.l[i], <<"type">>) = Str(TimelineAddEntries)}
                ELSE {}
        first == CHOOSE i \in adds : \A j \in adds : i <= j
    IN IF adds = {} \/ \E j \in 1..(first - 1) : ins.l[j].t # "obj" THEN <<>>
       ELSE LET entries == Path(ins.l[first], <<"entries">>)
            IN IF entries.t = "list" THEN entries.l ELSE <<>>

\* The entry's identifier contains the post marker.
Marked(e) ==
    LET id == Path(e, <<"entryId">>)
    IN id.t = "str" /\ Contains(PostMarker, id.s)

Resolved(e) == Path(e, ResultChain)

\* An entry of the post: marked, and its resolved result is of post type.
PostEntry(e) == Marked(e) /\ IsPost(Resolved(e))

\* An entry that is not marked (its identifier, if any, is a string).
NonMatching(e) ==
    LET id == Path(e, <<"entryId">>)
    IN e.t = "obj" /\ (id = Absent \/ (id.t = "str" /\ ~Contains(PostMarker, id.s)))

\* A marked entry whose resolved result is not of post type.
NonPost(e) == Marked(e) /\ WellFormedChain(e, ResultChain) /\ ~IsPost(Resolved(e))

\* The first entry of post type, when only non-matching and non-post entries
\* come before it; 0 when there is none.
FirstPostEntry(es) ==
    LET posts == {i \in 1..Len(es) :
                    /\ PostEntry(es[i])
                    /\ \A j \in 1..(i - 1) : NonMatching(es[j]) \/ NonPost(es[j])}
    IN IF posts = {} THEN 0 ELSE CHOOSE i \in posts : \A j \in posts : i <= j

\* The object a path would map: under data.tweetResult.result, or resolved
\* from a marked entry.
Candidates(doc, sh) ==
    IF sh = "result" THEN {Path(doc, <<"data", "tweetResult", "result">>)}
    ELSE {Resolved(EntriesOf(doc)[i]) :
            i \in {j \in 1..Len(EntriesOf(doc)) : Marked(EntriesOf(doc)[j])}}

Returned(sh) == pc = "returned" /\ shape = sh

-----------------------------------------------------------------------------
(* Properties of one extraction call (SpecExtract).                        *)

\* C3: for both shapes, a response with no target object of type 'Tweet'
\* (absent, or another discriminant) yields no result, and every result is
\* the mapping of a target object whose discriminant is 'Tweet'.
C3_OnlyFromPost ==
    pc = "returned" /\ shape \in {"detail", "result"} =>
        LET posts == {c \in Candidates(response_data, shape) : IsPost(c)}
        IN /\ posts = {} => result = Null
           /\ result # Null =>
                \E c \in posts : result = extract_tweet_data(c, now)

\* A tombstone with a well-formed legacy under data.tweetResult.result was
\* extracted, and gave nothing.
C3_Witness ==
    /\ Returned("result")
    /\ LET target == Path(response_data, <<"data", "tweetResult", "result">>)
       IN /\ Path(target, <<"__typename">>) = Str(TombstoneStr)
          /\ Path(target, <<"legacy", "full_text">>) = Str(<<"h", "i">>)
    /\ result = Null

\* C4: primary-shape extraction returns the mapped record of the first entry
\* that carries the marker and resolves to a post, whatever non-matching and
\* non-post entries come before it.
C4_FirstPostEntryWins ==
    Returned("detail") =>
        LET es == EntriesOf(response_data)
            x == FirstPostEntry(es)
        IN x # 0 => result = Caught(extract_tweet_data(Resolved(es[x]), now))

\* [non-post, non-matching, post X]: the record of X came out.
C4_Witness ==
    /\ Returned("detail")
    /\ LET es == EntriesOf(response_data)
       IN /\ Len(es) = 3
          /\ NonPost(es[1]) /\ NonMatching(es[2]) /\ es[3] = EntryX
    /\ result # Null
    /\ result.o.tweet.o.tweet_id = Str(<<"1">>)

\* C5 as stated: when the first entry that carries the marker does not
\* resolve to a post, extraction yields no result.
C5_FirstMarkedDecides ==
    Returned("detail") =>
        LET es == EntriesOf(response_data)
            marked == {i \in 1..Len(es) : Marked(es[i])}
            first == CHOOSE i \in marked : \A j \in marked : i <= j
        IN marked # {} /\ NonPost(es[first]) => result = Null

\* C5 amended: a marked entry that does not resolve to a post is passed over
\* and the scan goes on: there is no result when no entry of the list is a
\* post entry, and when a post entry follows non-post entries the result is
\* the record of the first such entry.
C5_ScanPassesNonPost ==
    Returned("detail") =>
        LET es == EntriesOf(response_data)
            x == FirstPostEntry(es)
        IN /\ (\A i \in 1..Len(es) : NonMatching(es[i]) \/ NonPost(es[i]))
                => result = Null
           /\ (x > 1 /\ \E j \in 1..(x - 1) : NonPost(es[j]))
                => result = Caught(extract_tweet_data(Resolved(es[x]), now))

\* [tombstone, post X]: the tombstone was passed over and X came out.
C5_Witness ==
    /\ Returned("detail")
    /\ EntriesOf(response_data) = <<EntryTombstone, EntryX>>
    /\ result # Null
    /\ result.o.tweet.o.tweet_id = Str(<<"1">>)

\* The post object the call under test maps: its argument (shape "tweet"),
\* the object under data.tweetResult.result, or the resolved result of the
\* first post entry; Absent when there is none.
Subject ==
    IF shape = "tweet" THEN response_data
    ELSE IF shape = "result"
         THEN LET x == Path(response_data, <<"data", "tweetResult", "result">>)
              IN IF IsPost(x) THEN x ELSE Absent
    ELSE LET es == EntriesOf(response_data)
         IN IF FirstPostEntry(es) = 0 THEN Absent
            ELSE Resolved(es[FirstPostEntry(es)])

\* Apart from the discriminant, x holds no leaf at any depth: every key that
\* is present holds a dict of the same kind.
RECURSIVE NoLeaf(_)
NoLeaf(x) ==
    /\ x.t = "obj"
    /\ \A k \in DOMAIN x.o \ {"__typename"} : NoLeaf(x.o[k])

TweetStringFields == {"text", "created_at", "lang", "source"}
TweetCountFields ==
    {"retweet_count", "favorite_count", "reply_count", "quote_count",
     "bookmark_count"}
UserStringFields ==
    {"screen_name", "name", "description", "location", "created_at",
     "profile_image_url", "profile_banner_url", "url"}
UserCountFields == {"followers_count", "friends_count", "statuses_count"}

\* r is a record whose fields, the two identifiers aside, hold the defaults.
DefaultsApartFromIds(r) ==
    /\ r.t = "obj"
    /\ \A k \in TweetStringFields : r.o.tweet.o[k] = EmptyStr
    /\ \A k \in TweetCountFields : r.o.tweet.o[k] = Num(0)
    /\ r.o.tweet.o.views = Null
    /\ r.o.tweet.o.media = EmptyList
    /\ \A k \in UserStringFields : r.o.user.o[k] = EmptyStr
    /\ \A k \in UserCountFields : r.o.user.o[k] = Num(0)
    /\ r.o.user.o.verified = Bool(FALSE)
    /\ r.o.user.o.is_blue_verified = Bool(FALSE)

\* C6 as stated: a post object without any optional leaf maps, without an
\* exception, to a record in which every string field (the two identifiers
\* included) is empty, every count 0, both flags false, the view count
\* absent and the media sequence empty.
C6_EveryStringEmpty ==
    pc = "returned" /\ shape \in {"tweet", "result"} /\ Subject # Absent
      /\ NoLeaf(Subject) =>
        /\ DefaultsApartFromIds(result)
        /\ result.o.tweet.o.tweet_id = EmptyStr
        /\ result.o.user.o.user_id = EmptyStr

\* C6 amended: the same, except that the post identifier and the author
\* identifier are absent (null), not the empty string.
C6_DefaultsWithAbsentIds ==
    pc = "returned" /\ shape \in {"tweet", "result"} /\ Subject # Absent
      /\ NoLeaf(Subject) =>
        /\ DefaultsApartFromIds(result)
        /\ result.o.tweet.o.tweet_id = Null
        /\ result.o.user.o.user_id = Null

\* The mapping ran on the post object that holds its discriminant only.
C6_Witness ==
    /\ Returned("tweet")
    /\ response_data = Obj("__typename" :> Str(TweetStr))
    /\ DefaultsApartFromIds(result)

\* The value under the chain of keys, None when there is none.
PathOrNone(x, keys) == IF Path(x, keys) = Absent THEN Null ELSE Path(x, keys)

MediaChain == <<"legacy", "extended_entities", "media">>

\* C9: when a record is produced from a post object whose media is a list,
\* the output media sequence has the same length, and its i-th item holds
\* the type, media_url_https and display_url of the i-th source item under
\* the keys type, url and display_url, and nothing else.
C9_MediaOrderKept ==
    pc = "returned" /\ shape \in {"tweet", "result"} /\ Subject # Absent
      /\ result.t = "obj" /\ Path(Subject, MediaChain).t = "list" =>
        LET src == Path(Subject, MediaChain).l
            out == result.o.tweet.o.media
        IN /\ out.t = "list"
           /\ Len(out.l) = Len(src)
           /\ \A i \in 1..Len(src) :
                out.l[i] = Obj([type |-> PathOrNone(src[i], <<"type">>),
                                url |-> PathOrNone(src[i], <<"media_url_https">>),
                                display_url |-> PathOrNone(src[i], <<"display_url">>)])

\* Three different media items came out in their order.
C9_Witness ==
    /\ Returned("result")
    /\ Subject # Absent
    /\ Path(Subject, MediaChain) = List(<<MediaB, MediaC, MediaA>>)
    /\ result.t = "obj"
    /\ Len(result.o.tweet.o.media.l) = 3
    /\ result.o.tweet.o.media.l[1].o.url = Str(<<"u", "b">>)
    /\ result.o.tweet.o.media.l[3].o.url = Str(<<"u", "a">>)

\* The sub-objects the mapping reads in a post object.
ExpectedObjects ==
    {<<"legacy">>, <<"legacy", "extended_entities">>, <<"views">>, <<"core">>,
     <<"core", "user_results">>, <<"core", "user_results", "result">>,
     <<"core", "user_results", "result", "legacy">>}

\* A structural mismatch in post object x: a sub-object or the media list is
\* missing, or its place holds a value of another type.
Mismatch(x) ==
    \/ \E chain \in ExpectedObjects : Path(x, chain).t # "obj"
    \/ Path(x, MediaChain).t # "list"

\* A value on which a lookup of the mapping fails: a present value that is
\* no dict where a dict is read, a media value that cannot be walked (None,
\* a number) or whose items (the characters of a string, the keys of a dict,
\* the items of a list) are not all dicts.
FailingLookup(x) ==
    \/ \E chain \in ExpectedObjects : Path(x, chain).t \notin {"obj", "absent"}
    \/ LET media == Path(x, MediaChain)
       IN /\ \A chain \in ExpectedObjects : Path(x, chain).t \in {"obj", "absent"}
          /\ \/ media.t \in {"null", "num", "bool"}
             \/ media.t \in {"str", "obj"} /\ Truthy(media)
             \/ media.t = "list" /\ \E i \in 1..Len(media.l) : media.l[i].t # "obj"

\* The response holds a value on the way to the post object that is missing
\* or of another type: no dict under data.tweetResult, no list of instructions.
LocatorMismatch ==
    IF shape = "result"
    THEN Path(response_data, <<"data", "tweetResult">>).t # "obj"
    ELSE Path(response_data, <<"data", "threaded_conversation_with_injections_v2",
                               "instructions">>).t # "list"

TweetFields == TweetStringFields \cup TweetCountFields \cup {"tweet_id", "views", "media"}
UserFields ==
    UserStringFields \cup UserCountFields \cup {"user_id", "verified", "is_blue_verified"}

\* r holds every field of the output schema.
Complete(r) ==
    /\ r.t = "obj"
    /\ DOMAIN r.o = {"extracted_at", "tweet", "user"}
    /\ r.o.tweet.t = "obj" /\ DOMAIN r.o.tweet.o = TweetFields
    /\ r.o.user.t = "obj" /\ DOMAIN r.o.user.o = UserFields
    /\ r.o.tweet.o.media.t = "list"
    /\ \A i \in 1..Len(r.o.tweet.o.media.l) :
         DOMAIN r.o.tweet.o.media.l[i].o = {"type", "url", "display_url"}

\* C10 as stated: on both paths the call never raises, and any structural
\* mismatch in the located post object (a missing key, or a value of another
\* type where an object or a list is expected) ends in 'no result'.
C10_AnyMismatchNoResult ==
    pc = "returned" /\ shape \in {"detail", "result"} =>
        /\ result # Raise
        /\ Subject # Absent /\ Mismatch(Subject) => result = Null

\* C10 amended: on both paths the call never raises and returns either no
\* result or a record with every field of the schema; a missing or wrongly
\* typed value on the way to the post object, and a value inside the post
\* object on which a lookup fails, end in 'no result'.  (A key missing inside
\* the post object gives the defaults instead, and an empty string or empty
\* dict for the media list is read as no media.)
C10_NeverRaisesNeverPartial ==
    pc = "returned" /\ shape \in {"detail", "result"} =>
        /\ result # Raise
        /\ result = Null \/ Complete(result)
        /\ LocatorMismatch => result = Null
        /\ Subject # Absent /\ FailingLookup(Subject) => result = Null

\* The primary path located a post whose legacy is null; the lookup on it
\* failed and the call gave nothing.
C10_Witness ==
    /\ Returned("detail")
    /\ Subject = TweetNullLegacy
    /\ result = Null

-----------------------------------------------------------------------------
(* Properties of fetch_and_extract and extract_from_file (Spec).           *)

\* C1: when the TweetDetail fetch succeeded and primary-shape extraction
\* gave a result, the next step of fetch_and_extract is the return of exactly
\* that result, the output of extract_from_tweet_detail on the fetched
\* document, and fetch_tweet_result has not been called; it is called only
\* after a TweetDetail attempt that gave nothing.
C1_PrimaryResultReturned ==
    [][/\ (pc = "after_detail" /\ Truthy(api_data) /\ Truthy(extracted_data)) =>
            /\ extracted_data = extract_from_tweet_detail(detail_response.body, now)
            /\ pc' = "returned"
            /\ ret' = extracted_data
            /\ result_calls' = 0
       /\ result_calls' # result_calls =>
            pc = "after_detail" /\ ~Truthy(extracted_data)]_vars

\* The run returned the primary result without a call of fetch_tweet_result.
C1_Witness ==
    /\ pc = "returned"
    /\ detail_response.kind = "ok"
    /\ Truthy(ret)
    /\ ret = extracted_data
    /\ detail_calls = 1 /\ result_calls = 0

\* C2: when the TweetDetail fetch succeeded, primary-shape extraction gave
\* nothing, and the TweetResult fetch and extraction succeeded, then
\* fetch_tweet_result was called exactly once and the value returned is the
\* output of extract_from_tweet_result on the TweetResult response.
C2_FallbackResultReturned ==
    /\ result_calls <= 1
    /\ (/\ pc = "returned"
        /\ detail_response.kind = "ok"
        /\ extract_from_tweet_detail(detail_response.body, now) = Null
        /\ result_response.kind = "ok"
        /\ extract_from_tweet_result(result_response.body, now) # Null)
       => /\ result_calls = 1
          /\ ret = extract_from_tweet_result(result_response.body, now)

\* A tombstone came from TweetDetail, a post from TweetResult, and the run
\* returned the record of that post.
C2_Witness ==
    /\ pc = "returned"
    /\ detail_response.kind = "ok" /\ Truthy(detail_response.body)
    /\ result_response.kind = "ok"
    /\ result_calls = 1
    /\ Truthy(ret)
    /\ ret.o.tweet.o.tweet_id = Str(<<"2">>)

\* The record without its extraction timestamp (None stays None).
WithoutTimestamp(r) ==
    IF r.t = "obj" THEN [tweet |-> r.o.tweet, user |-> r.o.user] ELSE r

\* The document has the primary shape: it holds data ->
\* threaded_conversation_with_injections_v2 -> instructions.
IsDetailShape(doc) ==
    Path(doc, <<"data", "threaded_conversation_with_injections_v2",
                "instructions">>) # Absent

\* C7 as stated: offline re-extraction of the saved TweetDetail document
\* gives, apart from the timestamp, what the live run returned.
C7_OfflineEqualsLive ==
    pc = "offline_done" /\ input_file = DetailFile /\ IsDetailShape(response_data)
        => WithoutTimestamp(off_ret) = WithoutTimestamp(ret)

\* C7 amended: offline re-extraction of the saved TweetDetail document gives,
\* apart from the timestamp, what the live run returned, when the live run
\* took its result from that document (primary-shape extraction gave a
\* result and fetch_tweet_result was not called).
C7_OfflineEqualsLivePrimary ==
    pc = "offline_done" /\ input_file = DetailFile /\ IsDetailShape(response_data)
      /\ result_calls = 0
        => /\ Truthy(off_ret)
           /\ WithoutTimestamp(off_ret) = WithoutTimestamp(ret)

\* The saved TweetDetail document was re-extracted later than the live run
\* extracted it, and gave the same record with another timestamp.
C7_Witness ==
    /\ pc = "offline_done" /\ input_file = DetailFile
    /\ IsDetailShape(response_data)
    /\ result_calls = 0
    /\ Truthy(ret) /\ Truthy(off_ret)
    /\ off_ret # ret
    /\ WithoutTimestamp(off_ret) = WithoutTimestamp(ret)

\* C8: a fetch that fails for any cause returns None and raises nothing;
\* after a failed TweetDetail fetch no extraction result exists and
\* fetch_tweet_result is called; when that fetch fails too,
\* fetch_and_extract returns None, raises nothing and has written no file.
C8_FetchFailureIsAbsence ==
    /\ pc # "raised"
    /\ (pc = "after_detail" /\ detail_response.kind # "ok") =>
          api_data = Null /\ extracted_data = Null /\ files = <<>>
    /\ (pc \in {"after_result", "returned"} /\ detail_response.kind # "ok") =>
          result_calls = 1
    /\ (pc = "after_result" /\ result_response.kind # "ok") =>
          api_data = Null /\ ~Truthy(extracted_data)
    /\ (pc = "returned" /\ detail_response.kind # "ok"
          /\ result_response.kind # "ok") =>
          /\ ret = Null
          /\ detail_calls = 1 /\ result_calls = 1
          /\ files = <<>>

\* Both fetches failed, of different causes, and the run returned None.
C8_Witness ==
    /\ pc = "returned"
    /\ detail_response.kind = "bad_json"
    /\ result_response.kind = "http_error"
    /\ ret = Null /\ files = <<>>

====
